---- MODULE Spec2Model ----
(***************************************************************************)
(* The three tool pages of the AI image editor front-end (inpaint, erase,  *)
(* generate) as one state machine: the React state of the mounted page,    *)
(* the canvas bitmap observed at a few probe pixels, the image-load and    *)
(* toBlob callbacks the browser still owes the page, and the submit        *)
(* handlers suspended at an await.                                         *)
(*                                                                         *)
(* Canvas pixels are stored premultiplied, as the 2D context stores them;  *)
(* getImageData converts back.  Coordinates are kept in half pixels so     *)
(* that brushSize / 2 and pixel centres are integers.  Probes and pointer  *)
(* targets are placed so that no probe centre lies within a pixel of a     *)
(* stamp outline: anti-aliased outline pixels are not observed.            *)
(***************************************************************************)
EXTENDS Integers, Sequences, FiniteSets, TLC

\* ------------------------------------------------------------- bounds ---
MaxPendingLoads == 2     \* image loads (new Image()) outstanding at once
MaxTasks == 2            \* submit handlers suspended at an await at once
MaxFetches == 2          \* fetch() calls issued in one behaviour
MaxMaskTasks == 1        \* preview toBlob callbacks outstanding at once
MaxPromptLen == 1        \* characters in a prompt
MaxDisplay == 5

\* ---------------------------------------------------- program constants ---
MinBrush == 5
MaxBrush == 50
DefaultBrush == 20
InpaintSize == 1024
EraseSize == 512

VARIABLES
  tool,              \* which page is mounted: "inpaint", "erase", "generate"
  files,             \* the user's image files: name -> [w, h, left, right]
  probes,            \* the observed pixel positions <<x, y>>
  rounding,          \* the build's 8-bit rounding: "down" or "nearest"
  originalImage,     \* useState<File | null>
  originalImageUrl,  \* useState<string | null>: the object URL of a file
  prompt,            \* prompt / backgroundPrompt
  result,            \* useState<Result | null>
  generatedImage,    \* generate page: useState<string | null>
  loading,           \* loading / isGenerating
  error,             \* useState<string | null>
  isDrawing, brushSize, isEraser, canvasInitialized,
  showMaskPreview, maskPreviewUrl,
  canvas,            \* canvasRef.current: NoCanvas or [w, h, px, base]
  pendingLoads,      \* img.onload callbacks not yet fired
  maskTasks,         \* generateMaskPreview suspended at await canvasToMask()
  tasks,             \* handleSubmit / handleGenerate instances at an await
  fetchCount,        \* fetch() calls issued so far
  lastEvent,         \* history: what the most recent event did
  eventOrderSurface  \* history: the bitmap with every stamp applied at its event

envVars == <<tool, files, probes, rounding>>
formVars == <<originalImage, originalImageUrl, prompt>>
outVars == <<result, generatedImage, loading, error>>
brushVars == <<brushSize, isEraser>>
previewVars == <<showMaskPreview, maskPreviewUrl>>
netVars == <<tasks, fetchCount>>
vars == <<tool, files, probes, rounding, originalImage, originalImageUrl, prompt,
          result, generatedImage, loading, error, isDrawing, brushSize, isEraser,
          canvasInitialized, showMaskPreview, maskPreviewUrl, canvas, pendingLoads,
          maskTasks, tasks, fetchCount, lastEvent, eventOrderSurface>>

\* --------------------------------------------------------------- values ---
Null == "null"                         \* a null string or File
None == [null |-> TRUE]                \* a null object
NoCanvas == [mounted |-> FALSE]        \* canvasRef.current before the canvas mounts
FileNames == {"A", "B"}
Tools == {"inpaint", "erase", "generate"}
CanvasTools == {"inpaint", "erase"}
Roundings == {"down", "nearest"}

Transparent == <<0, 0, 0, 0>>          \* a fresh bitmap is transparent black
OffBitmap == <<>>                      \* a probe outside the bitmap
MaskBlack == <<0, 0, 0, 255>>
MaskWhite == <<255, 255, 255, 255>>
DefaultCanvasSize == <<300, 150>>      \* an HTML canvas before width/height are set

Px(p) == p[1]
Py(p) == p[2]
InBitmap(p, w, h) == Px(p) < w /\ Py(p) < h

\* -------------------------------------------------------- pixel algebra ---
\* 8-bit arithmetic of the rasteriser: x / d, rounded as the build rounds.
RoundDiv(x, d) == IF rounding = "down" THEN x \div d ELSE (2 * x + d) \div (2 * d)

Min(a, b) == IF a < b THEN a ELSE b

\* A red fill at alpha 0.5.
FillStyleHalfAlpha == [r |-> 255, g |-> 0, b |-> 0, tenths |-> 5]
\* ctx.fillStyle = 'rgba(255, 0, 0, 0.7)': colour and alpha in tenths.
FillStyle == [r |-> 255, g |-> 0, b |-> 0, tenths |-> 7]

SrcAlpha == RoundDiv(FillStyle.tenths * 255, 10)

Premul(c, a) == RoundDiv(c * a, 255)

\* globalCompositeOperation = 'source-over', fill() of the fill style over one
\* premultiplied pixel dst = <<r, g, b, a>>.
SourceOver(dst) ==
  LET sa == SrcAlpha
      inv == 255 - sa
  IN  << Min(255, Premul(FillStyle.r, sa) + RoundDiv(dst[1] * inv, 255)),
         Min(255, Premul(FillStyle.g, sa) + RoundDiv(dst[2] * inv, 255)),
         Min(255, Premul(FillStyle.b, sa) + RoundDiv(dst[3] * inv, 255)),
         Min(255, sa + RoundDiv(dst[4] * inv, 255)) >>

\* getImageData: premultiplied store -> straight RGBA.
GetImageData(p) ==
  IF p[4] = 0 THEN Transparent
  ELSE IF p[4] = 255 THEN p
  ELSE << Min(255, RoundDiv(p[1] * 255, p[4])),
          Min(255, RoundDiv(p[2] * 255, p[4])),
          Min(255, RoundDiv(p[3] * 255, p[4])), p[4] >>

\* The classification with its comparisons made inclusive.
isRedInclusive(r, g, b) == r >= 150 /\ r >= g * 2 /\ r >= b * 2
\* const isRed = r > 150 && r > g * 2 && r > b * 2
isRed(r, g, b) == r > 150 /\ r > g * 2 /\ r > b * 2

\* ---------------------------------------------------------------- files ---
\* drawImage(img, 0, 0, size, size): the file stretched to size x size (aspect
\* ratio not kept).  A file is two vertical halves of one colour each; target
\* pixel p shows source column floor(p.x * w / size).
ScaledPixel(f, p, size) ==
  LET sx == (Px(p) * files[f].w) \div size
      c == IF 2 * sx < files[f].w THEN files[f].left ELSE files[f].right
  IN  <<c[1], c[2], c[3], 255>>

EraseTargetSize == EraseSize
TargetSize == IF tool = "erase" THEN EraseTargetSize ELSE InpaintSize

\* --------------------------------------------------------------- canvas ---
\* <canvas> as first mounted: 300 x 150, transparent.  base and marks are
\* history: the file whose pixels were last drawn at the probe ("blank" for none),
\* and the discs <<x2, y2, d>> filled since the bitmap was last redrawn whole.
BlankCanvas ==
  [w |-> DefaultCanvasSize[1], h |-> DefaultCanvasSize[2],
   px |-> [p \in probes |->
             IF InBitmap(p, DefaultCanvasSize[1], DefaultCanvasSize[2])
             THEN Transparent ELSE OffBitmap],
   base |-> [p \in probes |-> "blank"], marks |-> {}]

\* The canvas sized to the selected file's own width and height.
ResizeToFile(c, size) ==
  [w |-> files[originalImage].w, h |-> files[originalImage].h,
   px |-> [p \in probes |->
             IF InBitmap(p, files[originalImage].w, files[originalImage].h)
             THEN Transparent ELSE OffBitmap],
   base |-> [p \in probes |-> "blank"], marks |-> {}]

\* canvas.width = size; canvas.height = size: the bitmap is reallocated, cleared.
Resize(c, size) ==
  [w |-> size, h |-> size,
   px |-> [p \in probes |-> IF InBitmap(p, size, size) THEN Transparent ELSE OffBitmap],
   base |-> [p \in probes |-> "blank"], marks |-> {}]

\* ctx.clearRect(0, 0, canvas.width, canvas.height)
ClearRect(c) ==
  [c EXCEPT !.px = [p \in probes |-> IF c.px[p] = OffBitmap THEN OffBitmap ELSE Transparent],
            !.base = [p \in probes |-> "blank"], !.marks = {}]

\* The vertical scale taken from the displayed width.
MapYByWidth(e, c) == (2 * e.oy2 * c.h + e.w) \div (2 * e.w)
\* The surface position of a pointer event, to the nearest half pixel (the
\* last-bit rounding of the doubles is far below that).  The event gives the
\* pointer's offset in the displayed canvas in half CSS pixels (ox2, oy2) and
\* the displayed width and height (w, h):
\* (e.clientX - rect.left) * (canvas.width / rect.width), same for y.
MapX(e, c) == (2 * e.ox2 * c.w + e.w) \div (2 * e.w)
MapY(e, c) == (2 * e.oy2 * c.h + e.h) \div (2 * e.h)

\* The disc whose radius is the whole of size.
InDiscFullRadius(p, x2, y2, size) ==
  (2 * Px(p) + 1 - x2) * (2 * Px(p) + 1 - x2)
    + (2 * Py(p) + 1 - y2) * (2 * Py(p) + 1 - y2) <= 4 * size * size
\* ctx.arc(x, y, brushSize / 2, 0, Math.PI * 2): the centre of pixel p lies in
\* the disc of radius size / 2 around (x2 / 2, y2 / 2).
InDisc(p, x2, y2, size) ==
  (2 * Px(p) + 1 - x2) * (2 * Px(p) + 1 - x2)
    + (2 * Py(p) + 1 - y2) * (2 * Py(p) + 1 - y2) <= size * size

\* ctx.drawImage(img, 0, 0, size, size) of file f, within the clip region
\* (the whole bitmap when clip is FALSE, else the disc).
DrawImage(c, f, size, clip, x2, y2, d) ==
  LET hit(p) == /\ c.px[p] # OffBitmap
                /\ InBitmap(p, size, size)
                /\ (clip => InDisc(p, x2, y2, d))
  IN  [c EXCEPT !.px = [p \in probes |-> IF hit(p) THEN ScaledPixel(f, p, size) ELSE c.px[p]],
                !.base = [p \in probes |-> IF hit(p) THEN f ELSE c.base[p]]]

\* The brush stamp without beginPath(): the path keeps every earlier arc, and
\* fill() paints them all again.
FillDiscKeepsPath(c, x2, y2, d) ==
  [c EXCEPT !.px = [p \in probes |->
                      IF /\ c.px[p] # OffBitmap
                         /\ \E k \in c.marks \cup {<<x2, y2, d>>} : InDisc(p, k[1], k[2], k[3])
                      THEN SourceOver(c.px[p]) ELSE c.px[p]],
            !.marks = @ \cup {<<x2, y2, d>>}]
\* beginPath(); arc(x, y, brushSize / 2, ...); fillStyle = rgba(255,0,0,0.7); fill()
FillDisc(c, x2, y2, d) ==
  [c EXCEPT !.px = [p \in probes |->
                      IF c.px[p] # OffBitmap /\ InDisc(p, x2, y2, d)
                      THEN SourceOver(c.px[p]) ELSE c.px[p]],
            !.marks = @ \cup {<<x2, y2, d>>}]

\* The eraser's restore, as the onload callback performs it.
RestoreDisc(c, f, x2, y2, d) == DrawImage(c, f, TargetSize, TRUE, x2, y2, d)

\* The extraction giving an all-black mask while a stroke is active.
canvasToMaskGuarded(c) ==
  [w |-> c.w, h |-> c.h,
   px |-> [p \in probes |->
             IF c.px[p] = OffBitmap THEN OffBitmap
             ELSE LET d == GetImageData(c.px[p])
                  IN  IF ~isDrawing /\ isRed(d[1], d[2], d[3])
                      THEN MaskWhite ELSE MaskBlack],
   of |-> c.px, base |-> c.base, marks |-> c.marks]
\* The extraction with the mask canvas left at its default size.
canvasToMaskUnsized(c) ==
  [w |-> DefaultCanvasSize[1], h |-> DefaultCanvasSize[2],
   px |-> [p \in probes |->
             IF c.px[p] = OffBitmap
                  \/ ~InBitmap(p, DefaultCanvasSize[1], DefaultCanvasSize[2])
             THEN OffBitmap
             ELSE LET d == GetImageData(c.px[p])
                  IN  IF isRed(d[1], d[2], d[3]) THEN MaskWhite ELSE MaskBlack],
   of |-> c.px, base |-> c.base, marks |-> c.marks]
\* canvasToMask up to toBlob: the mask bitmap computed from the live canvas.
\* First pass black, second pass white where isRed.  of, base and marks are
\* history: the bitmap the mask was read from, with its own history.
canvasToMask(c) ==
  [w |-> c.w, h |-> c.h,
   px |-> [p \in probes |->
             IF c.px[p] = OffBitmap THEN OffBitmap
             ELSE LET d == GetImageData(c.px[p])
                  IN  IF isRed(d[1], d[2], d[3]) THEN MaskWhite ELSE MaskBlack],
   of |-> c.px, base |-> c.base, marks |-> c.marks]

\* ------------------------------------------------------------- strings ---
Chars == {" ", "x"}
Prompts == UNION {[1..n -> Chars] : n \in 0..MaxPromptLen}

RECURSIVE TrimLeft(_)
TrimLeft(s) == IF s # <<>> /\ Head(s) = " " THEN TrimLeft(Tail(s)) ELSE s
RECURSIVE TrimRight(_)
TrimRight(s) ==
  IF s # <<>> /\ s[Len(s)] = " " THEN TrimRight(SubSeq(s, 1, Len(s) - 1)) ELSE s
\* String.prototype.trim
Trim(s) == TrimRight(TrimLeft(s))
\* !prompt.trim()
Blank(s) == Trim(s) = <<>>

\* `HTTP error! status: ${response.status}`
HttpErrorMessage(status) == "HTTP error! status: " \o ToString(status)
MsgMissingInpaint == "Please provide an original image and prompt"
MsgMissingErase == "Please provide an image"
MsgNotReady == "Please wait for the image to load"
MsgMissingPrompt == "Please enter a prompt"
MsgGenerationFailed == "Generation failed"
MsgFetchFailed == "Failed to fetch"           \* TypeError thrown by fetch
MsgJsonError == "Unexpected token"            \* SyntaxError thrown by response.json()

\* -------------------------------------------------------------- history ---
Ev(kind, outcome, ready, touched) ==
  [kind |-> kind, outcome |-> outcome, ready |-> ready, touched |-> touched]

\* ------------------------------------------------------- pending loads ---
\* A new Image() whose src was set: its onload has not fired yet.  Equal loads
\* are kept apart by dup.
Load(kind, url, x2, y2, d) ==
  [kind |-> kind, url |-> url, x2 |-> x2, y2 |-> y2, d |-> d, dup |-> 0]

AddLoad(S, l) ==
  LET k == CHOOSE k \in 0..Cardinality(S) :
             /\ [l EXCEPT !.dup = k] \notin S
             /\ \A j \in 0..(k - 1) : [l EXCEPT !.dup = j] \in S
  IN  S \cup {[l EXCEPT !.dup = k]}

\* ------------------------------------------------------ file selection ---
\* onOriginalDrop, then the render it causes (the canvas mounts with the first
\* URL) and the init effect, whose guard holds after every drop: the URL is new
\* and canvasInitialized was just set false.
onOriginalDrop(f) ==
  /\ tool \in CanvasTools
  /\ Cardinality(pendingLoads) < MaxPendingLoads
  /\ originalImage' = f
  /\ originalImageUrl' = f
  /\ error' = Null
  /\ canvasInitialized' = FALSE
  /\ canvas' = IF canvas = NoCanvas THEN BlankCanvas ELSE canvas
  /\ eventOrderSurface' = IF canvas = NoCanvas THEN BlankCanvas ELSE eventOrderSurface
  /\ pendingLoads' = AddLoad(pendingLoads, Load("init", f, 0, 0, 0))
  /\ lastEvent' = Ev("drop", "loading", FALSE, FALSE)
  /\ UNCHANGED <<envVars, prompt, result, generatedImage, loading, isDrawing,
                 brushVars, previewVars, maskTasks, netVars>>

\* img.onload of the init effect: size the canvas, draw the file, flag ready.
InitOnload(l) ==
  /\ canvas' = DrawImage(Resize(canvas, TargetSize), l.url, TargetSize, FALSE, 0, 0, 0)
  /\ canvasInitialized' = TRUE
  /\ eventOrderSurface' = canvas'

\* img.onload of the eraser branch of draw: clip to the disc, redraw the file.
EraseOnload(l) ==
  /\ canvas' = RestoreDisc(canvas, l.url, l.x2, l.y2, l.d)
  /\ UNCHANGED <<canvasInitialized, eventOrderSurface>>

\* img.onload of clearMask: clearRect, redraw the file.
ClearOnload(l) ==
  /\ canvas' = DrawImage(ClearRect(canvas), l.url, TargetSize, FALSE, 0, 0, 0)
  /\ eventOrderSurface' = canvas'
  /\ UNCHANGED canvasInitialized

\* The browser fires one pending onload, in any order.
ImageLoaded(l) ==
  /\ l \in pendingLoads
  /\ pendingLoads' = pendingLoads \ {l}
  /\ CASE l.kind = "init" -> InitOnload(l)
       [] l.kind = "erase" -> EraseOnload(l)
       [] l.kind = "clear" -> ClearOnload(l)
  /\ lastEvent' = Ev("load", l.kind, canvasInitialized, canvas'.px # canvas.px)
  /\ UNCHANGED <<envVars, formVars, outVars, isDrawing, brushVars, previewVars,
                 maskTasks, netVars>>

\* --------------------------------------------------------------- paint ---
\* draw(e), as called from a handler whose render saw isDrawing = drawing.
draw(e, drawing, kind) ==
  LET x2 == MapX(e, canvas)
      y2 == MapY(e, canvas)
  IN  IF ~drawing \/ canvas = NoCanvas
      THEN /\ UNCHANGED <<canvas, pendingLoads, eventOrderSurface>>
           /\ lastEvent' = Ev(kind, "none", canvasInitialized, FALSE)
      ELSE IF isEraser
      THEN /\ pendingLoads' =
                AddLoad(pendingLoads, Load("erase", originalImageUrl, x2, y2, brushSize))
           /\ eventOrderSurface' =
                RestoreDisc(eventOrderSurface, originalImageUrl, x2, y2, brushSize)
           /\ UNCHANGED canvas
           /\ lastEvent' = Ev(kind, "deferred", canvasInitialized, FALSE)
      ELSE /\ canvas' = FillDisc(canvas, x2, y2, brushSize)
           /\ eventOrderSurface' = FillDisc(eventOrderSurface, x2, y2, brushSize)
           /\ UNCHANGED pendingLoads
           /\ lastEvent' = Ev(kind, "stamp", canvasInitialized, canvas'.px # canvas.px)

\* The canvas element exists once a URL is set; only then can it get events.
CanvasMounted == tool \in CanvasTools /\ originalImageUrl # Null

LoadSlotFree == Cardinality(pendingLoads) < MaxPendingLoads

\* onMouseDown: setIsDrawing(true); draw(e) -- draw still sees this render's
\* isDrawing.
startDrawing(e) ==
  /\ CanvasMounted
  /\ (isDrawing /\ isEraser) => LoadSlotFree
  /\ isDrawing' = TRUE
  /\ draw(e, isDrawing, "down")
  /\ UNCHANGED <<envVars, formVars, outVars, brushVars, canvasInitialized,
                 previewVars, maskTasks, netVars>>

\* A pointer move that stamps whether or not a stroke is active.
mouseMoveAlwaysDraws(e) ==
  /\ CanvasMounted
  /\ isEraser => LoadSlotFree
  /\ draw(e, TRUE, "move")
  /\ UNCHANGED <<envVars, formVars, outVars, isDrawing, brushVars, canvasInitialized,
                 previewVars, maskTasks, netVars>>

\* onMouseMove: draw(e)
mouseMove(e) ==
  /\ CanvasMounted
  /\ (isDrawing /\ isEraser) => LoadSlotFree
  /\ draw(e, isDrawing, "move")
  /\ UNCHANGED <<envVars, formVars, outVars, isDrawing, brushVars, canvasInitialized,
                 previewVars, maskTasks, netVars>>

\* onMouseUp, onMouseLeave: setIsDrawing(false)
stopDrawing ==
  /\ CanvasMounted
  /\ isDrawing' = FALSE
  /\ lastEvent' = Ev("up", "none", canvasInitialized, FALSE)
  /\ UNCHANGED <<envVars, formVars, outVars, brushVars, canvasInitialized, previewVars,
                 canvas, pendingLoads, maskTasks, netVars, eventOrderSurface>>

\* clearMask also putting the brush back to its defaults.
clearMaskResetsBrush ==
  /\ CanvasMounted
  /\ LoadSlotFree
  /\ pendingLoads' = AddLoad(pendingLoads, Load("clear", originalImageUrl, 0, 0, 0))
  /\ brushSize' = DefaultBrush
  /\ isEraser' = FALSE
  /\ lastEvent' = Ev("clear", "deferred", canvasInitialized, FALSE)
  /\ UNCHANGED <<envVars, formVars, outVars, isDrawing, canvasInitialized,
                 previewVars, canvas, maskTasks, netVars, eventOrderSurface>>

\* The clear button: if (!canvasRef.current || !originalImageUrl) return; else a
\* new Image() whose onload redraws.
clearMask ==
  /\ CanvasMounted
  /\ LoadSlotFree
  /\ pendingLoads' = AddLoad(pendingLoads, Load("clear", originalImageUrl, 0, 0, 0))
  /\ lastEvent' = Ev("clear", "deferred", canvasInitialized, FALSE)
  /\ UNCHANGED <<envVars, formVars, outVars, isDrawing, brushVars, canvasInitialized,
                 previewVars, canvas, maskTasks, netVars, eventOrderSurface>>

\* The brush size slider (min 5, max 50): setBrushSize(parseInt(value))
setBrushSize(n) ==
  /\ CanvasMounted
  /\ n \in MinBrush..MaxBrush
  /\ brushSize' = n
  /\ lastEvent' = Ev("size", "none", canvasInitialized, FALSE)
  /\ UNCHANGED <<envVars, formVars, outVars, isDrawing, isEraser, canvasInitialized,
                 previewVars, canvas, pendingLoads, maskTasks, netVars, eventOrderSurface>>

\* The brush / eraser buttons: setIsEraser(b)
setIsEraser(b) ==
  /\ CanvasMounted
  /\ isEraser' = b
  /\ lastEvent' = Ev("mode", "none", canvasInitialized, FALSE)
  /\ UNCHANGED <<envVars, formVars, outVars, isDrawing, brushSize, canvasInitialized,
                 previewVars, canvas, pendingLoads, maskTasks, netVars, eventOrderSurface>>

\* The prompt textarea: setPrompt(value) / setBackgroundPrompt(value)
setPrompt(s) ==
  /\ prompt' = s
  /\ lastEvent' = Ev("prompt", "none", canvasInitialized, FALSE)
  /\ UNCHANGED <<envVars, originalImage, originalImageUrl, outVars, isDrawing, brushVars,
                 canvasInitialized, previewVars, canvas, pendingLoads, maskTasks, netVars,
                 eventOrderSurface>>

\* ------------------------------------------------------------- preview ---
\* generateMaskPreview up to its await: canvasToMask() scans the canvas now and
\* leaves a toBlob callback pending.
generateMaskPreview ==
  /\ CanvasMounted
  /\ Cardinality(maskTasks) < MaxMaskTasks
  /\ maskTasks' = maskTasks \cup {canvasToMask(canvas)}
  /\ lastEvent' = Ev("preview", "mask", canvasInitialized, FALSE)
  /\ UNCHANGED <<envVars, formVars, outVars, isDrawing, brushVars, canvasInitialized,
                 previewVars, canvas, pendingLoads, netVars, eventOrderSurface>>

\* The toBlob callback of a preview: with a blob the promise resolves and the
\* preview is shown; with null it never resolves.
previewBlob(m, blob) ==
  /\ m \in maskTasks
  /\ maskTasks' = maskTasks \ {m}
  /\ IF blob
     THEN maskPreviewUrl' = m /\ showMaskPreview' = TRUE
     ELSE UNCHANGED previewVars
  /\ lastEvent' = Ev("blob", IF blob THEN "shown" ELSE "null", canvasInitialized, FALSE)
  /\ UNCHANGED <<envVars, formVars, outVars, isDrawing, brushVars, canvasInitialized,
                 canvas, pendingLoads, netVars, eventOrderSurface>>

\* The "Hide" button of the preview panel: setShowMaskPreview(false)
hidePreview ==
  /\ CanvasMounted
  /\ showMaskPreview /\ maskPreviewUrl # None
  /\ showMaskPreview' = FALSE
  /\ lastEvent' = Ev("hide", "none", canvasInitialized, FALSE)
  /\ UNCHANGED <<envVars, formVars, outVars, isDrawing, brushVars, canvasInitialized,
                 maskPreviewUrl, canvas, pendingLoads, maskTasks, netVars,
                 eventOrderSurface>>

\* -------------------------------------------------------------- server ---
NetworkError == [kind |-> "neterr"]
Garbage == [kind |-> "garbage"]
Json(success, detail) == [kind |-> "json", success |-> success, detail |-> detail]
Http(status, body) == [kind |-> "http", status |-> status, body |-> body]
DetailMessage == "CUDA out of memory"

\* What the transport can hand back to one fetch().
Responses ==
  {NetworkError}
    \cup {Http(200, b) : b \in {Json(TRUE, Null), Json(FALSE, Null), Garbage}}
    \cup {Http(500, b) : b \in {Json(FALSE, DetailMessage), Json(FALSE, Null), Garbage}}

\* response.ok
Ok(r) == r.status \in 200..299

\* -------------------------------------------------------------- submit ---
\* The disabled attribute without its loading term.
SubmitDisabledIgnoresLoading ==
  CASE tool = "inpaint" -> originalImage = Null \/ Blank(prompt) \/ ~canvasInitialized
    [] tool = "erase" -> originalImage = Null \/ ~canvasInitialized
    [] tool = "generate" -> Blank(prompt)
\* The disabled attribute without its prompt term.
SubmitDisabledIgnoresPrompt ==
  CASE tool = "inpaint" -> loading \/ originalImage = Null \/ ~canvasInitialized
    [] tool = "erase" -> loading \/ originalImage = Null \/ ~canvasInitialized
    [] tool = "generate" -> loading
\* The disabled attribute of the submit button of each page.
SubmitDisabled ==
  CASE tool = "inpaint" ->
         loading \/ originalImage = Null \/ Blank(prompt) \/ ~canvasInitialized
    [] tool = "erase" -> loading \/ originalImage = Null \/ ~canvasInitialized
    [] tool = "generate" -> loading \/ Blank(prompt)

\* The early returns of handleSubmit / handleGenerate: the message set, or Null.
InpaintValidation ==
  IF originalImage = Null \/ Blank(prompt) THEN MsgMissingInpaint
  ELSE IF ~canvasInitialized THEN MsgNotReady ELSE Null
EraseValidation ==
  IF originalImage = Null THEN MsgMissingErase
  ELSE IF ~canvasInitialized THEN MsgNotReady ELSE Null
GenerateValidation == IF Blank(prompt) THEN MsgMissingPrompt ELSE Null
Validation ==
  CASE tool = "inpaint" -> InpaintValidation
    [] tool = "erase" -> EraseValidation
    [] tool = "generate" -> GenerateValidation

\* History of one click on the submit button: what the page held and what the
\* click did.
SubmitEv(outcome) ==
  [kind |-> "submit", outcome |-> outcome, ready |-> canvasInitialized, touched |-> FALSE,
   hadImage |-> originalImage # Null, blankPrompt |-> Blank(prompt), pending |-> loading,
   reported |-> error' # error /\ error' # Null,
   loadingSet |-> loading' /\ ~loading,
   calls |-> fetchCount' - fetchCount,
   started |-> Len(tasks') - Len(tasks),
   kept |-> /\ result' = result /\ generatedImage' = generatedImage
            /\ canvas' = canvas /\ brushSize' = brushSize /\ isEraser' = isEraser]

\* The request built with the mask of the last preview shown, when there is
\* one, in place of a new extraction.
TaskWithPreviewMask(pc, body) ==
  [pc |-> pc, image |-> originalImage, prompt |-> prompt, body |-> body,
   mask |-> IF tool \notin CanvasTools THEN None
            ELSE IF maskPreviewUrl # None THEN maskPreviewUrl
            ELSE canvasToMask(canvas)]

Task(pc, body) ==
  [pc |-> pc, image |-> originalImage, prompt |-> prompt, body |-> body,
   mask |-> IF tool \in CanvasTools THEN canvasToMask(canvas) ELSE None]

\* handleSubmit of the inpaint and erase pages, up to await canvasToMask().
handleSubmit ==
  IF Validation # Null
  THEN /\ error' = Validation
       /\ UNCHANGED <<result, generatedImage, loading, netVars>>
       /\ lastEvent' = SubmitEv("rejected")
  ELSE /\ loading' = TRUE
       /\ error' = Null
       /\ tasks' = Append(tasks, Task("blob", None))
       /\ UNCHANGED <<result, generatedImage, fetchCount>>
       /\ lastEvent' = SubmitEv("accepted")

\* handleGenerate up to await fetch().
handleGenerate ==
  IF Validation # Null
  THEN /\ error' = Validation
       /\ UNCHANGED <<result, generatedImage, loading, netVars>>
       /\ lastEvent' = SubmitEv("rejected")
  ELSE /\ loading' = TRUE
       /\ error' = Null
       /\ generatedImage' = Null
       /\ result' = None
       /\ tasks' = Append(tasks, Task("fetch", None))
       /\ fetchCount' = fetchCount + 1
       /\ lastEvent' = SubmitEv("accepted")

CallsCommitted == fetchCount + Cardinality({i \in 1..Len(tasks) : tasks[i].pc = "blob"})

\* The click with a handler that also asks for the canvas to be initialized
\* again (setCanvasInitialized(false)).
clickSubmitReinitializes ==
  /\ Len(tasks) < MaxTasks
  /\ CallsCommitted < MaxFetches
  /\ canvasInitialized' = FALSE
  /\ UNCHANGED <<envVars, formVars, isDrawing, brushVars, previewVars,
                 canvas, pendingLoads, maskTasks, eventOrderSurface>>
  /\ IF SubmitDisabled
     THEN /\ UNCHANGED <<outVars, netVars>>
          /\ lastEvent' = SubmitEv("disabled")
     ELSE IF tool = "generate" THEN handleGenerate ELSE handleSubmit

\* A click on the submit button.  A disabled button delivers no click.
clickSubmit ==
  /\ Len(tasks) < MaxTasks
  /\ CallsCommitted < MaxFetches
  /\ UNCHANGED <<envVars, formVars, isDrawing, brushVars, canvasInitialized, previewVars,
                 canvas, pendingLoads, maskTasks, eventOrderSurface>>
  /\ IF SubmitDisabled
     THEN /\ UNCHANGED <<outVars, netVars>>
          /\ lastEvent' = SubmitEv("disabled")
     ELSE IF tool = "generate" THEN handleGenerate ELSE handleSubmit

Remove(q, i) == SubSeq(q, 1, i - 1) \o SubSeq(q, i + 1, Len(q))

\* History of a handler step after an await.
NetEv(kind, outcome, t, r) ==
  [kind |-> kind, outcome |-> outcome, ready |-> canvasInitialized, touched |-> FALSE,
   task |-> t, response |-> r, surfaced |-> error', loadingAfter |-> loading',
   resultBefore |-> result]

\* The toBlob callback inside canvasToMask, as awaited by handleSubmit: with a
\* blob the promise resolves and the request is sent; with null nothing
\* resolves or rejects it.
submitBlob(i, blob) ==
  /\ i \in 1..Len(tasks)
  /\ tasks[i].pc = "blob"
  /\ IF blob
     THEN /\ tasks' = [tasks EXCEPT ![i].pc = "fetch"]
          /\ fetchCount' = fetchCount + 1
     ELSE /\ tasks' = [tasks EXCEPT ![i].pc = "hung"]
          /\ UNCHANGED fetchCount
  /\ UNCHANGED outVars
  /\ lastEvent' = NetEv("blob", IF blob THEN "sent" ELSE "null", tasks[i], None)
  /\ UNCHANGED <<envVars, formVars, isDrawing, brushVars, canvasInitialized, previewVars,
                 canvas, pendingLoads, maskTasks, eventOrderSurface>>

\* The catch block also dropping the result shown.
FailClearsResult(i, msg, r) ==
  /\ error' = msg
  /\ loading' = FALSE
  /\ result' = None
  /\ tasks' = Remove(tasks, i)
  /\ UNCHANGED generatedImage
  /\ lastEvent' = NetEv("settled", "error", tasks[i], r)

\* catch (err) { setError(err.message) } finally { setLoading(false) }
Fail(i, msg, r) ==
  /\ error' = msg
  /\ loading' = FALSE
  /\ tasks' = Remove(tasks, i)
  /\ UNCHANGED <<result, generatedImage>>
  /\ lastEvent' = NetEv("settled", "error", tasks[i], r)

\* await fetch(...) settles: a rejection, or a response whose status decides.
fetchSettles(i, r) ==
  /\ i \in 1..Len(tasks)
  /\ tasks[i].pc = "fetch"
  /\ r \in Responses
  /\ IF r.kind = "neterr" THEN Fail(i, MsgFetchFailed, r)
     ELSE IF ~Ok(r) /\ tool # "generate" THEN Fail(i, HttpErrorMessage(r.status), r)
     ELSE /\ tasks' = [tasks EXCEPT ![i].pc = IF Ok(r) THEN "json" ELSE "errjson",
                                    ![i].body = r]
          /\ UNCHANGED outVars
          /\ lastEvent' = NetEv("response", "await", tasks[i], r)
  /\ UNCHANGED <<envVars, formVars, isDrawing, brushVars, canvasInitialized, previewVars,
                 canvas, pendingLoads, maskTasks, fetchCount, eventOrderSurface>>

\* The result object shown: the decoded body, echoing the request's prompt.
Data(t) == [success |-> t.body.body.success, prompt |-> t.prompt]

\* await response.json() settles, and the handler runs to its end.
jsonSettles(i) ==
  /\ i \in 1..Len(tasks)
  /\ tasks[i].pc \in {"json", "errjson"}
  /\ LET t == tasks[i]
         r == t.body
     IN  IF r.body.kind = "garbage" THEN Fail(i, MsgJsonError, r)
         ELSE IF t.pc = "errjson"
         THEN Fail(i, IF r.body.detail # Null THEN r.body.detail ELSE MsgGenerationFailed, r)
         ELSE IF tool = "generate" /\ ~r.body.success THEN Fail(i, MsgGenerationFailed, r)
         ELSE /\ result' = Data(t)
              /\ generatedImage' = IF tool = "generate" THEN "data:image/png" ELSE generatedImage
              /\ loading' = FALSE
              /\ tasks' = Remove(tasks, i)
              /\ UNCHANGED error
              /\ lastEvent' = NetEv("settled", "result", t, r)
  /\ UNCHANGED <<envVars, formVars, isDrawing, brushVars, canvasInitialized, previewVars,
                 canvas, pendingLoads, maskTasks, fetchCount, eventOrderSurface>>

\* The reset button of the generate page.
reset ==
  /\ tool = "generate"
  /\ prompt' = <<>>
  /\ generatedImage' = Null
  /\ result' = None
  /\ error' = Null
  /\ lastEvent' = Ev("reset", "none", canvasInitialized, FALSE)
  /\ UNCHANGED <<envVars, originalImage, originalImageUrl, loading, isDrawing, brushVars,
                 canvasInitialized, previewVars, canvas, pendingLoads, maskTasks, netVars,
                 eventOrderSurface>>

\* An image whose load fails (onerror is not handled): the callback never runs.
imageLoadFails(l) ==
  /\ l \in pendingLoads
  /\ pendingLoads' = pendingLoads \ {l}
  /\ lastEvent' = Ev("loaderror", l.kind, canvasInitialized, FALSE)
  /\ UNCHANGED <<envVars, formVars, outVars, isDrawing, brushVars, canvasInitialized,
                 previewVars, canvas, maskTasks, netVars, eventOrderSurface>>

\* ------------------------------------------------------------- inputs ---
\* Two photographs, neither red-dominant: A is 300 x 400.
Photos ==
  [f \in FileNames |->
     IF f = "A" THEN [w |-> 300, h |-> 400, left |-> <<90, 120, 60>>, right |-> <<200, 180, 160>>]
     ELSE [w |-> 640, h |-> 480, left |-> <<20, 40, 220>>, right |-> <<240, 240, 250>>]]

\* The probes of a page: the centre of the tool's surface and the centre of an
\* unsized canvas.
ProbesOf(t) ==
  IF t = "inpaint" THEN {<<512, 512>>, <<150, 75>>}
  ELSE IF t = "erase" THEN {<<256, 256>>, <<150, 75>>}
  ELSE {}

\* The displayed canvas is a square (aspect-ratio 1/1) of some side.
DisplaySides == {400, 1024}
\* Pointer events at the centre of the displayed canvas, and at its first quarter.
Midpoints == {[ox2 |-> d, oy2 |-> d, w |-> d, h |-> d] : d \in DisplaySides}
Quarters == {[ox2 |-> d \div 2, oy2 |-> d \div 2, w |-> d, h |-> d] : d \in DisplaySides}
BrushSizes == {MinBrush, DefaultBrush, MaxBrush}

\* The page as mounted: every useState at its initial value.
Mounted(t, fs, ps) ==
  /\ tool = t
  /\ files = fs
  /\ probes = ps
  /\ rounding \in Roundings
  /\ originalImage = Null
  /\ originalImageUrl = Null
  /\ prompt = <<>>
  /\ result = None
  /\ generatedImage = Null
  /\ loading = FALSE
  /\ error = Null
  /\ isDrawing = FALSE
  /\ brushSize = DefaultBrush
  /\ isEraser = FALSE
  /\ canvasInitialized = FALSE
  /\ showMaskPreview = FALSE
  /\ maskPreviewUrl = None
  /\ canvas = NoCanvas
  /\ pendingLoads = {}
  /\ maskTasks = {}
  /\ tasks = <<>>
  /\ fetchCount = 0
  /\ lastEvent = Ev("mount", "none", FALSE, FALSE)
  /\ eventOrderSurface = NoCanvas

Init == \E t \in Tools : Mounted(t, Photos, ProbesOf(t))

Next ==
  \/ \E f \in FileNames : onOriginalDrop(f)
  \/ \E l \in pendingLoads : ImageLoaded(l)
  \/ \E l \in pendingLoads : imageLoadFails(l)
  \/ \E e \in Midpoints \cup Quarters : startDrawing(e)
  \/ \E e \in Midpoints \cup Quarters : mouseMove(e)
  \/ stopDrawing
  \/ clearMask
  \/ \E n \in BrushSizes : setBrushSize(n)
  \/ \E b \in BOOLEAN : setIsEraser(b)
  \/ \E s \in Prompts : setPrompt(s)
  \/ generateMaskPreview
  \/ \E m \in maskTasks, b \in BOOLEAN : previewBlob(m, b)
  \/ hidePreview
  \/ clickSubmit
  \/ \E i \in 1..Len(tasks), b \in BOOLEAN : submitBlob(i, b)
  \/ \E i \in 1..Len(tasks), r \in Responses : fetchSettles(i, r)
  \/ \E i \in 1..Len(tasks) : jsonSettles(i)
  \/ reset

Spec == Init /\ [][Next]_vars

\* ------------------------------------------------ the submit life cycle ---
\* The three pages with one file and a canvas nothing paints on (so that the
\* rasteriser's rounding is never exercised): selection, prompt, submit, the
\* transport's answers.
InitSubmit == \E t \in Tools : Mounted(t, Photos, ProbesOf(t)) /\ rounding = "down"

NextSubmit ==
  \/ onOriginalDrop("A")
  \/ \E l \in pendingLoads : ImageLoaded(l)
  \/ \E s \in Prompts : setPrompt(s)
  \/ clickSubmit
  \/ \E i \in 1..Len(tasks), b \in BOOLEAN : submitBlob(i, b)
  \/ \E i \in 1..Len(tasks), r \in Responses : fetchSettles(i, r)
  \/ \E i \in 1..Len(tasks) : jsonSettles(i)
  \/ reset

SpecSubmit == InitSubmit /\ [][NextSubmit]_vars

\* The brush would not fill, at pointer event e, a disc that is on the surface
\* already.
FreshStamp(e) ==
  (canvas # NoCanvas /\ ~isEraser)
    => <<MapX(e, canvas), MapY(e, canvas), brushSize>> \notin canvas.marks

\* ------------------------------------------- painting across two files ---
\* Either canvas page: both files are dropped in any order, images load in any
\* order, the centre is painted (each disc once between two whole redraws) and
\* erased, the mask cleared.
InitPaint == \E t \in CanvasTools : Mounted(t, Photos, ProbesOf(t)) /\ rounding = "down"

NextPaint ==
  \/ \E f \in FileNames : onOriginalDrop(f)
  \/ \E l \in pendingLoads : ImageLoaded(l)
  \/ \E e \in Midpoints : FreshStamp(e) /\ startDrawing(e)
  \/ \E e \in Midpoints : FreshStamp(e) /\ mouseMove(e)
  \/ stopDrawing
  \/ clearMask
  \/ \E b \in BOOLEAN : setIsEraser(b)

SpecPaint == InitPaint /\ [][NextPaint]_vars

\* ------------------------------------------------- paint, then erase ---
\* Either canvas page: files are dropped and load in any order, the centre is
\* painted with the brush at two sizes (each disc once between two whole
\* redraws) and erased.
InitRoundTrip ==
  \E t \in CanvasTools : Mounted(t, Photos, ProbesOf(t)) /\ rounding = "down"

NextRoundTrip ==
  \/ \E f \in FileNames : onOriginalDrop(f)
  \/ \E l \in pendingLoads : ImageLoaded(l)
  \/ \E e \in Midpoints : FreshStamp(e) /\ startDrawing(e)
  \/ \E e \in Midpoints : FreshStamp(e) /\ mouseMove(e)
  \/ \E n \in {DefaultBrush, MaxBrush} : setBrushSize(n)
  \/ \E b \in BOOLEAN : setIsEraser(b)

SpecRoundTrip == InitRoundTrip /\ [][NextRoundTrip]_vars

\* ------------------------------------------------- pointer to surface ---
\* The canvas displayed at any width and height up to MaxDisplay CSS pixels.
DisplaySizes == {<<w, h>> : w \in 1..MaxDisplay, h \in 1..MaxDisplay}
\* Pointer events at the midpoint of the displayed canvas, and at its corners.
MidEvents == {[ox2 |-> d[1], oy2 |-> d[2], w |-> d[1], h |-> d[2]] : d \in DisplaySizes}
CornerEvents ==
  {[ox2 |-> i * 2 * d[1], oy2 |-> j * 2 * d[2], w |-> d[1], h |-> d[2]] :
     d \in DisplaySizes, i \in {0, 1}, j \in {0, 1}}

InitMap == \E t \in CanvasTools : Mounted(t, Photos, ProbesOf(t)) /\ rounding = "down"

\* One selection; the brush is used at the midpoint of the displayed canvas,
\* the eraser at its corners.
NextMap ==
  \/ originalImage = Null /\ onOriginalDrop("A")
  \/ \E l \in pendingLoads : ImageLoaded(l)
  \/ \E e \in MidEvents : ~isEraser /\ FreshStamp(e) /\ startDrawing(e)
  \/ \E e \in MidEvents : ~isEraser /\ FreshStamp(e) /\ mouseMove(e)
  \/ \E e \in CornerEvents : isEraser /\ mouseMove(e)
  \/ stopDrawing
  \/ \E b \in BOOLEAN : setIsEraser(b)

SpecMap == InitMap /\ [][NextMap]_vars

\* ---------------------------------------------------- brush controls ---
\* The centre of the surface, a pixel three to its right, and the centre of an
\* unsized canvas.
BrushProbes(t) ==
  IF t = "erase" THEN {<<256, 256>>, <<259, 256>>, <<150, 75>>}
  ELSE {<<512, 512>>, <<515, 512>>, <<150, 75>>}

InitBrush ==
  \E t \in CanvasTools : Mounted(t, Photos, BrushProbes(t)) /\ rounding = "down"

\* No mask is held: none being encoded, none shown, none in a request.
NoMaskHeld == maskTasks = {} /\ maskPreviewUrl = None /\ tasks = <<>>

\* The slider and the mode buttons among everything else a canvas page does:
\* selections, strokes, clears, previews and submits, with one image load at a
\* time and the surface left alone while a mask is held.
NextBrush ==
  \/ NoMaskHeld /\ pendingLoads = {} /\ onOriginalDrop("A")
  \/ \E l \in pendingLoads : ImageLoaded(l)
  \/ \E e \in Midpoints : NoMaskHeld /\ pendingLoads = {} /\ FreshStamp(e) /\ startDrawing(e)
  \/ \E e \in Midpoints : NoMaskHeld /\ pendingLoads = {} /\ FreshStamp(e) /\ mouseMove(e)
  \/ stopDrawing
  \/ NoMaskHeld /\ pendingLoads = {} /\ clearMask
  \/ \E n \in BrushSizes : setBrushSize(n)
  \/ \E b \in BOOLEAN : setIsEraser(b)
  \/ NoMaskHeld /\ generateMaskPreview
  \/ \E m \in maskTasks : previewBlob(m, TRUE)
  \/ tasks = <<>> /\ maskTasks = {} /\ clickSubmit
  \/ \E i \in 1..Len(tasks) : submitBlob(i, TRUE)
  \/ \E i \in 1..Len(tasks) : fetchSettles(i, NetworkError)

SpecBrush == InitBrush /\ [][NextBrush]_vars

\* ------------------------------------------- selections and submits ---
InitPair == \E t \in CanvasTools : Mounted(t, Photos, ProbesOf(t)) /\ rounding = "down"

\* Either canvas page: files are dropped and load in any order, the surface is
\* cleared, and requests are sent.
NextPair ==
  \/ \E f \in FileNames : onOriginalDrop(f)
  \/ \E l \in pendingLoads : ImageLoaded(l)
  \/ clearMask
  \/ setPrompt(<<"x">>)
  \/ clickSubmit
  \/ \E i \in 1..Len(tasks) : submitBlob(i, TRUE)
  \/ \E i \in 1..Len(tasks) : fetchSettles(i, NetworkError)

SpecPair == InitPair /\ [][NextPair]_vars

\* ---------------------------------------------- strokes, previews, submits ---
\* One answer of each kind: a result, a non-2xx status, an undecodable body, a
\* network failure.
SessionResponses ==
  {NetworkError, Http(200, Json(TRUE, Null)), Http(200, Garbage),
   Http(500, Json(FALSE, DetailMessage))}

\* Either canvas page with one file: the centre is painted with the brush, the
\* mask previewed, the form submitted and answered, in any order.
InitSession == \E t \in CanvasTools : Mounted(t, Photos, ProbesOf(t)) /\ rounding = "down"

NextSession ==
  \/ originalImage = Null /\ onOriginalDrop("A")
  \/ \E l \in pendingLoads : ImageLoaded(l)
  \/ \E e \in Midpoints : FreshStamp(e) /\ startDrawing(e)
  \/ \E e \in Midpoints : FreshStamp(e) /\ mouseMove(e)
  \/ stopDrawing
  \/ setPrompt(<<"x">>)
  \/ generateMaskPreview
  \/ \E m \in maskTasks : previewBlob(m, TRUE)
  \/ clickSubmit
  \/ \E i \in 1..Len(tasks), b \in BOOLEAN : submitBlob(i, b)
  \/ \E i \in 1..Len(tasks), r \in SessionResponses : fetchSettles(i, r)
  \/ \E i \in 1..Len(tasks) : jsonSettles(i)

SpecSession == InitSession /\ [][NextSession]_vars

\* ------------------------------------------------ one stroke, one file ---
\* Source colours: the corners of the colour cube, and the pixels on either
\* side of each threshold of the classification.
CubeCorners == {<<r, g, b>> : r \in {0, 255}, g \in {0, 255}, b \in {0, 255}}
ThresholdPixels ==
  {<<200, 50, 50>>, <<200, 120, 50>>, <<100, 10, 10>>,
   <<150, 50, 50>>, <<151, 50, 50>>, <<151, 75, 75>>, <<152, 76, 0>>, <<152, 0, 76>>,
   <<200, 100, 50>>, <<200, 99, 50>>, <<200, 50, 100>>, <<200, 50, 99>>,
   <<255, 127, 127>>, <<255, 128, 0>>, <<255, 0, 128>>, <<150, 0, 0>>}
PixelSamples == CubeCorners \cup ThresholdPixels

Uniform(c) == [f \in FileNames |-> [w |-> 300, h |-> 400, left |-> c, right |-> c]]
Centre(t) == IF t = "erase" THEN <<256, 256>> ELSE <<512, 512>>

\* Any source colour under the centre probe of either canvas page.
InitPixel ==
  \E t \in CanvasTools, c \in PixelSamples : Mounted(t, Uniform(c), {Centre(t)})

\* One selection, one stroke that stays active, previews at any time.
NextPixel ==
  \/ originalImage = Null /\ onOriginalDrop("A")
  \/ \E l \in pendingLoads : ImageLoaded(l)
  \/ \E e \in Midpoints : startDrawing(e)
  \/ \E e \in Midpoints : mouseMove(e)
  \/ generateMaskPreview
  \/ \E m \in maskTasks : previewBlob(m, TRUE)

SpecPixel == InitPixel /\ [][NextPixel]_vars

\* The inpaint page with the 300 x 400 photograph, observed around (512, 512).
HappyProbes ==
  {<<512, 512>>, <<519, 512>>, <<512, 520>>, <<527, 512>>, <<540, 512>>, <<150, 75>>}

InitHappy == Mounted("inpaint", Photos, HappyProbes)

\* One selection of the photograph, brush strokes of any slider size at the
\* centre, each disc filled once, previews at any time.
NextHappy ==
  \/ originalImage = Null /\ onOriginalDrop("A")
  \/ \E l \in pendingLoads : ImageLoaded(l)
  \/ \E e \in Midpoints : FreshStamp(e) /\ startDrawing(e)
  \/ \E e \in Midpoints : FreshStamp(e) /\ mouseMove(e)
  \/ stopDrawing
  \/ \E n \in BrushSizes : setBrushSize(n)
  \/ generateMaskPreview
  \/ \E m \in maskTasks : previewBlob(m, TRUE)

SpecHappy == InitHappy /\ [][NextHappy]_vars


\* ============================================================== claims ===
\* Every mask the page has extracted: awaiting its blob, or shown as preview.
Masks == maskTasks \cup (IF maskPreviewUrl = None THEN {} ELSE {maskPreviewUrl})

\* The straight RGBA the extraction read at probe p of the surface of mask m.
ReadPixel(m, p) == GetImageData(m.of[p])

\* C1: on the inpaint and the erase page, the mask pixel of every surface pixel
\* (r, g, b) is opaque white if and only if r > 150, r > 2g and r > 2b, and
\* opaque black otherwise; (200,50,50) is white, (200,120,50) and (100,10,10)
\* are black, and so are the boundaries r = 150, r = 2g, r = 2b.
C1_MaskClassification ==
  \A m \in Masks : \A p \in probes :
    LET d == ReadPixel(m, p)
    IN  m.of[p] # OffBitmap =>
          /\ m.px[p] \in {MaskWhite, MaskBlack}
          /\ m.px[p] = MaskWhite <=> (d[1] > 150 /\ d[1] > 2 * d[2] /\ d[1] > 2 * d[3])
          /\ <<d[1], d[2], d[3]>> = <<200, 50, 50>> => m.px[p] = MaskWhite
          /\ <<d[1], d[2], d[3]>> \in {<<200, 120, 50>>, <<100, 10, 10>>} => m.px[p] = MaskBlack
          /\ (d[1] = 150 \/ d[1] = 2 * d[2] \/ d[1] = 2 * d[3]) => m.px[p] = MaskBlack

C1_Witness ==
  \E m \in Masks : \E p \in probes :
    /\ m.of[p] = <<200, 50, 50, 255>>
    /\ m.px[p] = MaskWhite
    /\ tool = "erase"

\* Tasks whose request is on the wire: sent, or its body still being read.
Outstanding == {i \in 1..Len(tasks) : tasks[i].pc \in {"fetch", "json", "errjson"}}

\* C2: on every page at most one network request is outstanding, and a click on
\* submit made while a request is pending starts no handler and no request.
C2_SingleInFlight ==
  /\ Cardinality(Outstanding) <= 1
  /\ (lastEvent.kind = "submit" /\ lastEvent.pending)
       => (lastEvent.calls = 0 /\ lastEvent.started = 0)

C2_Witness ==
  /\ lastEvent.kind = "submit"
  /\ lastEvent.pending
  /\ Cardinality(Outstanding) = 1

HasDetail(r) ==
  r.kind = "http" /\ ~Ok(r) /\ r.body.kind = "json" /\ r.body.detail # Null

\* C3: when the server answers a submit with a non-2xx status and a JSON body
\* carrying a detail message, the error shown is that message and loading is
\* cleared; the status-based message appears only when there is no detail.
C3_ServerDetailSurfaced ==
  lastEvent.kind = "settled" =>
    /\ HasDetail(lastEvent.response)
         => (lastEvent.surfaced = lastEvent.response.body.detail /\ ~lastEvent.loadingAfter)
    /\ (lastEvent.response.kind = "http"
          /\ lastEvent.surfaced = HttpErrorMessage(lastEvent.response.status))
         => ~HasDetail(lastEvent.response)

\* The required input that was absent when the submit button was clicked.
MissingInput(ev) ==
  CASE tool = "inpaint" -> ~ev.hadImage \/ ev.blankPrompt \/ ~ev.ready
    [] tool = "erase" -> ~ev.hadImage \/ ~ev.ready
    [] tool = "generate" -> ev.blankPrompt

C5_LoadingCanResolve ==
  loading => \E i \in 1..Len(tasks) : tasks[i].pc \in {"blob", "fetch", "json", "errjson"}

\* The centre of pixel p lies within diameter / 2 pixels of the point whose
\* coordinates, in half pixels, are (x2, y2).
Within(p, x2, y2, diameter) ==
  (2 * Px(p) + 1 - x2) * (2 * Px(p) + 1 - x2)
    + (2 * Py(p) + 1 - y2) * (2 * Py(p) + 1 - y2) <= diameter * diameter

\* A mask of the initialized 1024 surface of the 300 x 400 photograph.
HappyMask(m) ==
  /\ files["A"].w = 300 /\ files["A"].h = 400
  /\ m.w = 1024 /\ m.h = 1024
  /\ \A p \in probes : m.base[p] = "A"

Overlaid(m, p) ==
  /\ m.base[p] \in FileNames
  /\ \E k \in m.marks : Within(p, k[1], k[2], k[3])

\* C10: whatever opaque background (r, g, b) a pixel had, once one mark stamp
\* has composited red at alpha 0.7 over it the pixel read back satisfies the
\* classification rule and is white in the mask, and it stays so under further
\* overlapping mark stamps.
C10_OverlayDetected ==
  \A m \in Masks : \A p \in probes :
    Overlaid(m, p) =>
      LET d == ReadPixel(m, p)
      IN  /\ d[1] > 150 /\ d[1] > 2 * d[2] /\ d[1] > 2 * d[3]
          /\ m.px[p] = MaskWhite

C10_Witness ==
  \E m \in Masks : \E p \in probes :
    /\ Overlaid(m, p)
    /\ files["A"].left = <<0, 255, 255>>
    /\ m.of[p] = SourceOver(SourceOver(<<0, 255, 255, 255>>))
    /\ m.px[p] = MaskWhite

\* C6: on a ready surface that shows the selected file, with no image callback
\* outstanding, the pixels equal the result of applying every stamp at the
\* moment of its pointer event: no unmark stamp has landed after something the
\* user did later.
C6_StampsInEventOrder ==
  (/\ canvasInitialized
   /\ pendingLoads = {}
   /\ \A p \in probes : canvas.base[p] = originalImage)
    => canvas.px = eventOrderSurface.px

\* C7: whenever the surface is flagged ready and no image callback is
\* outstanding, every pixel of it was last drawn from the currently selected
\* file.
C7_SurfaceShowsSelectedSource ==
  (canvasInitialized /\ pendingLoads = {})
    => \A p \in probes : canvas.base[p] = originalImage

\* C8: while the ready flag is false no paint operation (mark, unmark, clear)
\* changes a surface pixel, no preview produces a mask and no submit is
\* accepted.
C8_NotReadyRejected ==
  ~lastEvent.ready =>
    /\ lastEvent.kind \in {"down", "move", "clear"} => ~lastEvent.touched
    /\ (lastEvent.kind = "load" /\ lastEvent.outcome \in {"erase", "clear"})
         => ~lastEvent.touched
    /\ lastEvent.kind = "preview" => lastEvent.outcome # "mask"
    /\ lastEvent.kind = "submit" => lastEvent.outcome \in {"disabled", "rejected"}

\* Every mask extracted and still held: for a preview, or by a submit.
Extracted == Masks \cup ({tasks[i].mask : i \in 1..Len(tasks)} \ {None})

\* C11: every mask has exactly the width and height of the surface it was
\* extracted from, and each of its pixels is exactly (0,0,0,255) or
\* (255,255,255,255), whatever the surface holds.
C11_BinaryMaskOfEqualSize ==
  /\ \A m \in Extracted : \A p \in probes :
       IF InBitmap(p, m.w, m.h)
       THEN m.px[p] \in {MaskBlack, MaskWhite}
       ELSE m.px[p] = OffBitmap
  /\ lastEvent.kind = "preview" =>
       \E m \in maskTasks : m.of = canvas.px /\ m.w = canvas.w /\ m.h = canvas.h

C11_Witness ==
  /\ lastEvent.kind = "preview"
  /\ canvas.w = EraseSize
  /\ \E m \in maskTasks : \E p \in probes :
       /\ m.w = EraseSize /\ m.h = EraseSize
       /\ GetImageData(m.of[p]) \notin {MaskBlack, MaskWhite}
       /\ m.px[p] = MaskWhite

FreshSurface ==
  [w |-> TargetSize, h |-> TargetSize,
   px |-> [p \in probes |-> IF InBitmap(p, TargetSize, TargetSize)
                            THEN ScaledPixel(originalImage, p, TargetSize)
                            ELSE OffBitmap]]

\* The surface holds two or more brush discs, all centred where the eraser
\* restore l is and none wider than it.
PaintedUnder(l) ==
  /\ Cardinality(canvas.marks) >= 2
  /\ \A k \in canvas.marks : k[1] = l.x2 /\ k[2] = l.y2 /\ k[3] <= l.d

\* C13: when an eraser restore lands on a disc that held two overlapping
\* brush discs, every pixel of the disc is the pixel of the selected file as
\* the init effect scales it, every pixel outside the disc is as it was, and
\* the mask of the surface is the mask of the freshly initialized surface.
C13_UnmarkRestoresSource ==
  [][\A l \in pendingLoads \ pendingLoads' :
       (l.kind = "erase" /\ lastEvent'.kind = "load" /\ PaintedUnder(l)) =>
         /\ \A p \in probes :
              IF Within(p, l.x2, l.y2, l.d)
              THEN canvas'.px[p] = FreshSurface.px[p]
              ELSE canvas'.px[p] = canvas.px[p]
         /\ \A p \in probes :
              canvas'.px[p] # OffBitmap =>
                LET d == GetImageData(canvas'.px[p])
                    f == GetImageData(FreshSurface.px[p])
                IN  isRed(d[1], d[2], d[3]) = isRed(f[1], f[2], f[3])]_vars

\* C14: when the image of a clear lands on a ready surface, the surface is the
\* freshly initialized surface of the selected file (scaled file, no paint)
\* and keeps the target's width and height.
C14_ClearResetsSurface ==
  (lastEvent.kind = "load" /\ lastEvent.outcome = "clear" /\ lastEvent.ready) =>
    /\ canvas.px = FreshSurface.px
    /\ canvas.w = TargetSize /\ canvas.h = TargetSize

\* C15: a brush stamp is centred where the pointer maps to (the surface's
\* centre for a pointer at the centre of the displayed canvas) with the
\* slider's size, leaves every pixel outside its disc as it was, and never
\* lowers the red channel or raises the green or blue channel of a pixel.
C15_MarkStampsLocal ==
  [][lastEvent'.outcome = "stamp" =>
       /\ <<canvas.w, canvas.h, brushSize>> \in canvas'.marks
       /\ \A p \in probes :
            /\ ~Within(p, canvas.w, canvas.h, brushSize) => canvas'.px[p] = canvas.px[p]
            /\ canvas.px[p] # OffBitmap =>
                 LET old == GetImageData(canvas.px[p])
                     new == GetImageData(canvas'.px[p])
                 IN  new[1] >= old[1] /\ new[2] <= old[2] /\ new[3] <= old[3]]_vars

\* The brush at 20 was stamped over the disc of the brush at 50: the centre
\* is painted twice, a pixel 15 to its right once.
C15_Witness ==
  /\ lastEvent.outcome = "stamp" /\ lastEvent.touched
  /\ brushSize = 20
  /\ {<<1024, 1024, 20>>, <<1024, 1024, 50>>} \subseteq canvas.marks
  /\ canvas.px[<<527, 512>>] = SourceOver(ScaledPixel("A", <<527, 512>>, 1024))
  /\ canvas.px[<<512, 512>>] # canvas.px[<<527, 512>>]
  /\ canvas.px[<<512, 512>>][1] > SourceOver(ScaledPixel("A", <<512, 512>>, 1024))[1]

\* C16: every submit that passes validation makes exactly one fetch call: the
\* generate page with the accepted click, the canvas pages when the mask
\* extraction of the accepted click hands over its blob, with the image, the
\* mask and the prompt of the click; no response and no failure makes another.
C16_OneCallPerSubmit ==
  [][/\ (lastEvent'.kind = "submit" /\ lastEvent'.outcome = "accepted") =>
          fetchCount' = fetchCount + (IF tool = "generate" THEN 1 ELSE 0)
     /\ (lastEvent'.kind = "submit" /\ lastEvent'.outcome # "accepted") =>
          fetchCount' = fetchCount
     /\ lastEvent'.kind = "blob" =>
          /\ fetchCount' = fetchCount + 1
          /\ lastEvent'.task.image # Null /\ lastEvent'.task.mask # None
     /\ lastEvent'.kind \in {"response", "settled"} => fetchCount' = fetchCount]_vars

\* C17: a mask of the ready surface is extracted, for a preview or for an
\* accepted submit, only while no stroke is active and no eraser stamp of an
\* earlier pointer event is still waiting for its image.
C17_ExtractionBetweenStrokes ==
  (/\ canvasInitialized
   /\ \/ lastEvent.kind = "preview"
      \/ lastEvent.kind = "submit" /\ lastEvent.outcome = "accepted" /\ tool \in CanvasTools)
    => /\ ~isDrawing
       /\ \A l \in pendingLoads : l.kind # "erase"

\* Mask m is the classification of the surface as it is now.
OfSurfaceNow(m) ==
  /\ m.w = canvas.w /\ m.h = canvas.h
  /\ \A p \in probes :
       canvas.px[p] # OffBitmap =>
         LET d == GetImageData(canvas.px[p])
         IN  m.px[p] = (IF isRed(d[1], d[2], d[3]) THEN MaskWhite ELSE MaskBlack)

\* C18: the mask a preview click extracts and the mask an accepted submit
\* attaches to its request are the classification of the surface at the click,
\* whatever an earlier preview showed.
C18_MaskFreshness ==
  /\ lastEvent.kind = "preview" => \E m \in maskTasks : OfSurfaceNow(m)
  /\ (lastEvent.kind = "submit" /\ lastEvent.outcome = "accepted" /\ tool \in CanvasTools)
       => OfSurfaceNow(tasks[Len(tasks)].mask)

\* A submit accepted after paint was added to the surface a preview had
\* shown: the request's mask is white where the preview is black.
C18_Witness ==
  /\ lastEvent.kind = "submit" /\ lastEvent.outcome = "accepted"
  /\ maskPreviewUrl # None
  /\ \E p \in probes :
       /\ maskPreviewUrl.px[p] = MaskBlack
       /\ tasks[Len(tasks)].mask.px[p] = MaskWhite

\* C19: a click on the submit button (disabled, rejected or accepted), the
\* blob of an extraction, a response and the end of a call, with a result or
\* with any failure, leave the canvas (its pixels, its width and height), the
\* ready flag, the brush size and the brush mode as they were.
C19_SubmitLeavesSurface ==
  [][lastEvent'.kind \in {"submit", "blob", "response", "settled"} =>
       /\ canvas' = canvas
       /\ canvasInitialized' = canvasInitialized
       /\ brushSize' = brushSize /\ isEraser' = isEraser]_vars

\* A call that failed on a painted surface: the mask it sent is the mask of
\* the surface as it is after the failure.
C19_Witness ==
  /\ lastEvent.kind = "settled" /\ lastEvent.outcome = "error"
  /\ canvasInitialized
  /\ canvas.marks # {}
  /\ lastEvent.task.mask.of = canvas.px
  /\ \E p \in probes : lastEvent.task.mask.px[p] = MaskWhite

\* The canvas has the width and height of the tool's target.
AtTarget(c) == c # NoCanvas /\ c.w = TargetSize /\ c.h = TargetSize

\* C20: whatever the file's width and height, the surface is the tool's square
\* target (1024 x 1024 on the inpaint page, 512 x 512 on the erase page) once
\* an initialization has completed, and no later step changes its width or
\* height.
C20_ResolutionInvariance ==
  [][/\ canvasInitialized' => AtTarget(canvas')
     /\ AtTarget(canvas) => AtTarget(canvas')]_vars

\* The erase page's surface, initialized from the 640 x 480 file and then
\* painted: 512 x 512.
C20_Witness ==
  /\ tool = "erase"
  /\ canvasInitialized
  /\ originalImage # Null /\ files[originalImage].w = 640 /\ files[originalImage].h = 480
  /\ lastEvent.outcome = "stamp" /\ lastEvent.touched
  /\ canvas.w = 512 /\ canvas.h = 512

\* The corners of surface c, in half pixels.
SurfaceCorners(c) == {<<x2, y2>> : x2 \in {0, 2 * c.w}, y2 \in {0, 2 * c.h}}

\* C21: whatever width and height the canvas is displayed at, a pointer at
\* the midpoint of the displayed canvas maps to the midpoint of the surface
\* and a pointer at a displayed corner to the same corner of the surface,
\* each axis by its own scale: every brush disc is centred at the surface's
\* midpoint and every eraser restore at one of its corners (of the unsized
\* canvas, when the pointer event came before the initialization).
C21_CoordinateMapping ==
  canvas # NoCanvas =>
    /\ \A k \in canvas.marks : k[1] = canvas.w /\ k[2] = canvas.h
    /\ \A l \in pendingLoads :
         l.kind = "erase" =>
           <<l.x2, l.y2>> \in SurfaceCorners(canvas) \cup SurfaceCorners(BlankCanvas)
    /\ \A e \in MidEvents : MapX(e, canvas) = canvas.w /\ MapY(e, canvas) = canvas.h
    /\ \A e \in CornerEvents :
         /\ MapX(e, canvas) = (IF e.ox2 = 0 THEN 0 ELSE 2 * canvas.w)
         /\ MapY(e, canvas) = (IF e.oy2 = 0 THEN 0 ELSE 2 * canvas.h)

\* The erase page's 512 surface holds a brush disc at (256, 256) and waits for
\* an eraser restore at its corner (512, 512).
C21_Witness ==
  /\ tool = "erase" /\ canvasInitialized
  /\ <<512, 512, brushSize>> \in canvas.marks
  /\ \E l \in pendingLoads : l.kind = "erase" /\ l.x2 = 1024 /\ l.y2 = 1024

\* C22: on the erase page a click with a file selected, the surface ready, no
\* call pending and the prompt empty is accepted, and its request is sent
\* with the empty prompt; on the inpaint and generate pages a click with a
\* blank prompt is never accepted and makes no call.
C22_EraseAcceptsEmptyPrompt ==
  [][/\ (/\ lastEvent'.kind = "submit" /\ tool = "erase"
         /\ lastEvent'.hadImage /\ lastEvent'.ready /\ ~lastEvent'.pending
         /\ prompt = <<>>)
          => lastEvent'.outcome = "accepted" /\ tasks'[Len(tasks')].prompt = <<>>
     /\ (lastEvent'.kind = "blob" /\ tool = "erase" /\ lastEvent'.task.prompt = <<>>)
          => fetchCount' = fetchCount + 1
     /\ (lastEvent'.kind = "submit" /\ tool # "erase" /\ lastEvent'.blankPrompt)
          => /\ lastEvent'.outcome # "accepted"
             /\ lastEvent'.calls = 0 /\ lastEvent'.started = 0]_vars

\* The probe three pixels to the right of the surface's centre: its centre is
\* 3.5 pixels from the midpoint.
NearCentre == IF tool = "erase" THEN <<259, 256>> ELSE <<515, 512>>

\* C23: the brush setting and the mode change only through the slider and the
\* mode buttons, the mode is mark or unmark, and every brush stamp on the
\* ready surface is a disc whose radius is an integer number of pixels from 5
\* to 50: it paints every pixel within 5 pixels of its centre.
C23_BrushRadiusInRange ==
  [][/\ isEraser' \in BOOLEAN
     /\ brushSize' # brushSize => lastEvent'.kind = "size"
     /\ isEraser' # isEraser => lastEvent'.kind = "mode"
     /\ (lastEvent'.outcome = "stamp" /\ canvasInitialized) =>
          canvas'.px[NearCentre] # canvas.px[NearCentre]]_vars

\* C23 as amended: the brush setting is an integer from 5 to 50 and the mode
\* is mark or unmark; they change only through the slider and the mode
\* buttons, whatever else happens (strokes, clears, previews, selections,
\* submits); a brush stamp is the disc whose diameter is the setting (radius
\* 2.5 to 25 pixels): it changes exactly the pixels within half the setting
\* of the pointer's position.
C23_BrushSettingInRange ==
  [][/\ brushSize' \in MinBrush..MaxBrush
     /\ isEraser' \in BOOLEAN
     /\ brushSize' # brushSize => lastEvent'.kind = "size"
     /\ isEraser' # isEraser => lastEvent'.kind = "mode"
     /\ lastEvent'.outcome = "stamp" =>
          \A p \in probes :
            canvas.px[p] # OffBitmap =>
              ((canvas'.px[p] # canvas.px[p]) <=> Within(p, canvas.w, canvas.h, brushSize))]_vars

\* The brush at 5 stamped alone on the ready surface: the centre is painted,
\* the pixel 3.5 pixels away is not.
C23_Witness ==
  /\ lastEvent.outcome = "stamp" /\ canvasInitialized
  /\ brushSize = MinBrush
  /\ canvas.marks = {<<canvas.w, canvas.h, MinBrush>>}
  /\ canvas.px[NearCentre] = ScaledPixel("A", NearCentre, TargetSize)
  /\ \E p \in probes : canvas.px[p] = SourceOver(ScaledPixel("A", p, TargetSize))

\* C24: when a call fails (fetch rejects, a status that is not 2xx, a body
\* that does not decode), the error is set and loading is false; the inpaint
\* and erase pages keep the result they showed, and the generate page, which
\* cleared result and image when the call started, shows none.
C24_PriorResultOnFailure ==
  (lastEvent.kind = "settled" /\ lastEvent.outcome = "error") =>
    /\ error # Null
    /\ ~loading
    /\ tool \in CanvasTools => result = lastEvent.resultBefore
    /\ tool = "generate" => result = None /\ generatedImage = Null

\* A call of a canvas page failed while the result of an earlier call was
\* shown.
C24_Witness ==
  /\ lastEvent.kind = "settled" /\ lastEvent.outcome = "error"
  /\ tool \in CanvasTools
  /\ result # None
  /\ fetchCount = 2

\* C25: a press of the pointer on the ready canvas, in brush mode, starts a
\* stroke and stamps a disc at the pointer's position in the same event: the
\* surface changes there without any pointer move.
C25_PointerDownPaints ==
  (lastEvent.kind = "down" /\ lastEvent.ready /\ ~isEraser) =>
    /\ isDrawing
    /\ lastEvent.outcome = "stamp"
    /\ lastEvent.touched

\* C26: a pointer move draws only while a stroke is active: with the flag
\* false it changes no pixel and schedules no restore; the flag becomes true
\* only by a press of the pointer and is false after a release or a leave,
\* and a move does not change it.
C26_NoStampWithoutStroke ==
  [][/\ lastEvent'.kind = "move" =>
          /\ isDrawing' = isDrawing
          /\ ~isDrawing => (canvas' = canvas /\ pendingLoads' = pendingLoads)
     /\ (isDrawing' /\ ~isDrawing) => lastEvent'.kind = "down"
     /\ lastEvent'.kind = "up" => ~isDrawing']_vars

\* The pointer moved over the painted, ready surface after the stroke had
\* ended: nothing was drawn.
C26_Witness ==
  /\ lastEvent.kind = "move" /\ lastEvent.outcome = "none"
  /\ ~isDrawing
  /\ canvasInitialized
  /\ canvas.marks # {}

\* C27: a mask pixel is white only if it lies inside a brush disc stamped
\* since the last whole redraw of the surface; a mask extracted straight
\* after the initialization, with no stamp made, is black everywhere,
\* whatever the file shows.
C27_WhiteMeansMarked ==
  \A m \in Masks : \A p \in probes :
    m.px[p] = MaskWhite => \E k \in m.marks : Within(p, k[1], k[2], k[3])

\* C28: in every request a canvas page sends, the mask was extracted from a
\* surface that showed, at every pixel, the file sent as the request's image.
C28_ImageAndMaskTogether ==
  (lastEvent.kind = "blob" /\ lastEvent.outcome = "sent") =>
    \A p \in probes : lastEvent.task.mask.base[p] = lastEvent.task.image

\* C29: on every page the result shown changes only when a call ends with a
\* 2xx response whose body decodes and reports success; a 2xx response that
\* reports no success ends the call with an error and the result as it was.
C29_ResultOnlyOnSuccess ==
  lastEvent.kind = "settled" =>
    LET r == lastEvent.response
    IN  /\ result # lastEvent.resultBefore =>
             (r.kind = "http" /\ Ok(r) /\ r.body.kind = "json" /\ r.body.success)
        /\ (r.kind = "http" /\ Ok(r) /\ r.body.kind = "json" /\ ~r.body.success) =>
             /\ lastEvent.outcome = "error" /\ error # Null
             /\ result = lastEvent.resultBefore

\* C30: the reset of the generate page leaves the prompt empty and result,
\* image and error null, and the answer to a request that was in flight when
\* reset was pressed (the next thing to happen after it) makes none of them
\* reappear.
C30_ResetIsFinal ==
  [][/\ lastEvent'.kind = "reset" =>
          /\ prompt' = <<>>
          /\ result' = None /\ generatedImage' = Null /\ error' = Null
     /\ (lastEvent.kind = "reset" /\ lastEvent'.kind \in {"response", "settled"}) =>
          result' = None /\ generatedImage' = Null /\ error' = Null]_vars

====
